---- MODULE Spec2Model ----
(***************************************************************************)
(* A model of the OpenAPI v2 -> NDC REST schema converter of               *)
(* src/openapi/v2.go.                                                      *)
(*                                                                         *)
(* The document model (paths, operations, parameters, responses, schema    *)
(* definitions, security definitions) is the input; the converter's        *)
(* registries and operation lists are the state.  Go pointers that may be  *)
(* nil are modelled by the value Nil; an error value is a string ("" is    *)
(* the nil error); a run-time panic or a stack exhaustion is a crash value *)
(* that no caller can wrap or catch.                                       *)
(***************************************************************************)
EXTENDS Integers, Sequences, FiniteSets, TLC

VARIABLES
    defs,     \* docModel.Model.Definitions: definition name -> schema
    pc,       \* position of OpenAPIv2ToNDCSchema (or of the single call under SpecOp)
    errs,     \* the non-fatal errors BuildV2Model returned
    idx,      \* number of path items / definitions / security schemes visited so far
    item,     \* the path item visited last (iterPath)
    schema,   \* converter.schema: the envelope being populated
    ret,      \* what the entry point returned
    call      \* under SpecOp: the function called and its arguments

vars == <<defs, pc, errs, idx, item, schema, ret, call>>

(***************************************************************************)
(* Bounds of the model.                                                    *)
(***************************************************************************)
\* longest list of path items of a document
MaxPaths == 2
\* longest list of security definitions of a document
MaxSchemes == 1
\* longest parameter list of an operation
MaxParams == 2
\* deepest nesting of getSchemaType calls the model follows; every acyclic
\* descent over the schemas below is shallower, so reaching it means that the
\* descent re-entered a definition and repeats for ever
MaxDepth == 7

(***************************************************************************)
(* Values.                                                                 *)
(***************************************************************************)
Nil == [k |-> "nil"]

\* schema.TypeEncoder: Named, Nullable, Array
NewNamedType(name) == [k |-> "named", name |-> name]
NewNullableType(t) == [k |-> "nullable", of |-> t]
NewArrayType(t) == [k |-> "array", of |-> t]
NewNullableNamedType(name) == NewNullableType(NewNamedType(name))

\* error values
NoErr == ""
errParameterSchemaEmpty == "parameter schema is empty"
errArrayItemEmpty == "array item is empty"
\* crashes: a nil dereference panics, an unbounded recursion exhausts the stack
Panic == "panic: nil pointer dereference"
StackOverflow == "fatal error: stack overflow"
IsCrash(e) == e \in {Panic, StackOverflow}
\* fmt.Errorf("%s: %s", prefix, err); a crash never reaches the wrapping code
WrapErr(prefix, e) == IF IsCrash(e) THEN e ELSE prefix \o ": " \o e

\* rest.TypeSchema: the denormalised descriptor
TypeSchema(type, nullable, props, items) ==
    [k |-> "ts", type |-> type, nullable |-> nullable, props |-> props, items |-> items]

\* the properties of a descriptor: property name -> descriptor
NoProps == [n \in {} |-> Nil]

\* base.Schema.  type: the declared type names; props: the ordered properties,
\* each <<name, proxy>>; required: the required property names; items: Nil, or
\* the dynamic value with A a proxy or Nil; any: anyOf or additionalProperties
\* is declared; title: the schema's title
Schema(type, nullable, props, required, items, any, title) ==
    [k |-> "schema", type |-> type, nullable |-> nullable, props |-> props,
     required |-> required, items |-> items, any |-> any, title |-> title]

\* base.SchemaProxy: a reference (as its path segments) or an inline schema
RefTo(name) == [k |-> "proxy", ref |-> <<"#", "definitions", name>>, inline |-> Nil]
Inline(s) == [k |-> "proxy", ref |-> <<>>, inline |-> s]
ItemsOf(proxy) == [k |-> "items", A |-> proxy]

\* SchemaProxy.Schema(): the schema a proxy resolves to, Nil when it cannot
ProxySchema(d, proxy) ==
    IF proxy.ref = <<>> THEN proxy.inline
    ELSE IF Len(proxy.ref) = 3 /\ proxy.ref[3] \in DOMAIN d THEN d[proxy.ref[3]]
    ELSE Nil

\* the name a "#/definitions/<name>" reference ends with, "" for any other
getSchemaRefTypeNameV2(ref) ==
    IF Len(ref) = 3 /\ ref[1] = "#" /\ ref[2] = "definitions" THEN ref[3] ELSE ""

\* utils.ToPascalCase over the identifiers the documents below use
PascalOf ==
    [pet |-> "Pet", tag |-> "Tag", owner |-> "Owner", gone |-> "Gone",
     get |-> "Get", post |-> "Post", put |-> "Put", patch |-> "Patch",
     delete |-> "Delete", listPets |-> "ListPets"]
ToPascalCase(s) == IF s \in DOMAIN PascalOf THEN PascalOf[s] ELSE s

RECURSIVE StringSliceToPascalCase(_)
StringSliceToPascalCase(ss) ==
    IF ss = <<>> THEN ""
    ELSE ToPascalCase(Head(ss)) \o StringSliceToPascalCase(Tail(ss))

isPrimitiveScalar(name) == name \in {"boolean", "integer", "number", "string"}

\* the scalar a primitive type maps to; anything else is the generic JSON
ScalarOf == [boolean |-> "Boolean", integer |-> "Int", number |-> "Float", string |-> "String"]
ScalarJSON == "JSON"

\* getScalarFromType: the scalar's name, registered on demand
getScalarFromType(reg, names) ==
    LET name == IF Len(names) = 1 /\ names[1] \in DOMAIN ScalarOf
                THEN ScalarOf[names[1]] ELSE ScalarJSON
    IN [name |-> name, reg |-> [reg EXCEPT !.ScalarTypes = @ \cup {name}]]

createSchemaFromOpenAPISchema(s, typeName) ==
    TypeSchema(typeName, s.nullable, NoProps, Nil)

\* the result of a resolver call: the type expression, the descriptor, the
\* error and the registries as the call left them
Resolved(t, ts, reg) == [type |-> t, ts |-> ts, err |-> NoErr, reg |-> reg]
Failed(e, reg) == [type |-> Nil, ts |-> Nil, err |-> e, reg |-> reg]

(***************************************************************************)
(* The type resolver.                                                      *)
(***************************************************************************)
RECURSIVE getSchemaType(_, _, _, _, _)
RECURSIVE getSchemaTypeFromProxy(_, _, _, _, _, _)
RECURSIVE convertProperties(_, _, _, _, _, _)

\* the closing lines of the three resolvers: an error is returned as it is,
\* a resolved type is wrapped in Nullable when the flag is set
wrapNullable(nullable, r) ==
    IF r.err # NoErr THEN Failed(r.err, r.reg)
    ELSE IF nullable THEN [r EXCEPT !.type = NewNullableType(@)]
    ELSE r

\* the proxy is a reference to a definition whose first type is object
isObjectRef(d, schemaProxy) ==
    /\ getSchemaRefTypeNameV2(schemaProxy.ref) # ""
    /\ Len(ProxySchema(d, schemaProxy).type) > 0
    /\ ProxySchema(d, schemaProxy).type[1] = "object"

\* a title with no space replaces the field paths
titledFieldPaths(innerSchema, fieldPaths) ==
    IF innerSchema.title # "" THEN <<ToPascalCase(innerSchema.title)>> ELSE fieldPaths

\* get and convert an OpenAPI data type to a NDC type, from a proxy
getSchemaTypeFromProxy(d, schemaProxy, nullable, fieldPaths, reg, depth) ==
    IF schemaProxy = Nil THEN Failed(errParameterSchemaEmpty, reg)
    ELSE IF ProxySchema(d, schemaProxy) = Nil
    THEN Failed("cannot get schema from proxy", reg)
    ELSE wrapNullable(nullable,
             IF isObjectRef(d, schemaProxy)
             THEN \* return early object from ref
                  Resolved(NewNamedType(ToPascalCase(getSchemaRefTypeNameV2(schemaProxy.ref))),
                           TypeSchema(getSchemaRefTypeNameV2(schemaProxy.ref), FALSE,
                                      NoProps, Nil),
                           reg)
             ELSE getSchemaType(d, ProxySchema(d, schemaProxy),
                                titledFieldPaths(ProxySchema(d, schemaProxy), fieldPaths),
                                reg, depth))

\* the property propName resolved to p joins the object's fields
addProperty(propName, nullable, acc, p) ==
    IF p.err # NoErr THEN [acc EXCEPT !.err = p.err, !.reg = p.reg]
    ELSE [err |-> NoErr,
          fields |-> (propName :> p.type) @@ acc.fields,
          props |-> (propName :> [p.ts EXCEPT !.nullable = nullable]) @@ acc.props,
          reg |-> p.reg]

\* the loop of getSchemaType over the properties i.. of an object schema;
\* acc holds the object's fields, the descriptor's properties and the registries
convertProperties(d, typeSchema, i, fieldPaths, acc, depth) ==
    IF acc.err # NoErr \/ i > Len(typeSchema.props) THEN acc
    ELSE convertProperties(d, typeSchema, i + 1, fieldPaths,
             addProperty(typeSchema.props[i][1],
                         typeSchema.props[i][1] \notin typeSchema.required,
                         acc,
                         getSchemaTypeFromProxy(d, typeSchema.props[i][2],
                             typeSchema.props[i][1] \notin typeSchema.required,
                             Append(fieldPaths, typeSchema.props[i][1]), acc.reg, depth)),
             depth)

\* the descriptor of a schema that is no primitive scalar
typeResultOf(typeSchema) ==
    [createSchemaFromOpenAPISchema(typeSchema, "") EXCEPT !.type = typeSchema.type[1]]

scalarResolved(typeSchema, sc) ==
    Resolved(NewNamedType(sc.name), createSchemaFromOpenAPISchema(typeSchema, sc.name), sc.reg)

\* the object named refName with the properties ps is registered
objectResolved(typeSchema, refName, ps) ==
    IF ps.err # NoErr THEN Failed(ps.err, ps.reg)
    ELSE Resolved(NewNamedType(refName),
                  [typeResultOf(typeSchema) EXCEPT !.props = ps.props],
                  [ps.reg EXCEPT !.ObjectTypes = (refName :> ps.fields) @@ @])

\* the array of the inline item schema resolved to it
arrayResolved(typeSchema, it) ==
    IF it.err # NoErr THEN Failed(it.err, it.reg)
    ELSE Resolved(NewArrayType(it.type), [typeResultOf(typeSchema) EXCEPT !.items = it.ts],
                  it.reg)

\* get and convert an OpenAPI data type to a NDC type
getSchemaType(d, typeSchema, fieldPaths, reg, depth) ==
    IF depth > MaxDepth THEN Failed(StackOverflow, reg)
    ELSE IF typeSchema = Nil THEN Failed(errParameterSchemaEmpty, reg)
    ELSE IF typeSchema.any \/ Len(typeSchema.type) > 1
    THEN Resolved(NewNamedType(ScalarJSON),
                  createSchemaFromOpenAPISchema(typeSchema, ScalarJSON),
                  [reg EXCEPT !.ScalarTypes = @ \cup {ScalarJSON}])
    ELSE IF Len(typeSchema.type) = 0 THEN Failed(errParameterSchemaEmpty, reg)
    ELSE wrapNullable(typeSchema.nullable,
        IF isPrimitiveScalar(typeSchema.type[1])
        THEN scalarResolved(typeSchema, getScalarFromType(reg, typeSchema.type))
        ELSE IF typeSchema.type[1] = "object"
        THEN IF typeSchema.props = <<>>
             THEN \* treat no-property objects as a JSON scalar
                  Resolved(NewNamedType(StringSliceToPascalCase(fieldPaths)),
                           typeResultOf(typeSchema),
                           [reg EXCEPT !.ScalarTypes =
                                @ \cup {StringSliceToPascalCase(fieldPaths)}])
             ELSE objectResolved(typeSchema, StringSliceToPascalCase(fieldPaths),
                      convertProperties(d, typeSchema, 1, fieldPaths,
                          [err |-> NoErr, fields |-> NoProps, props |-> NoProps,
                           reg |-> reg],
                          depth + 1))
        ELSE IF typeSchema.type[1] = "array"
        THEN IF typeSchema.items = Nil \/ typeSchema.items.A = Nil
             THEN Failed(errArrayItemEmpty, reg)
             ELSE IF getSchemaRefTypeNameV2(typeSchema.items.A.ref) # ""
             THEN Resolved(NewArrayType(NewNamedType(
                               getSchemaRefTypeNameV2(typeSchema.items.A.ref))),
                           typeResultOf(typeSchema), reg)
             ELSE IF ProxySchema(d, typeSchema.items.A) = Nil
             THEN Failed("cannot parse type reference name", reg)
             ELSE arrayResolved(typeSchema,
                      getSchemaType(d, ProxySchema(d, typeSchema.items.A), fieldPaths,
                                    reg, depth + 1))
        ELSE Failed("unsupported schema type " \o typeSchema.type[1], reg))

(***************************************************************************)
(* Parameters.                                                             *)
(***************************************************************************)
\* v2.Parameter.  required: *param.Required, a nil pointer reading as FALSE;
\* items: Nil or the items with their type; schema: Nil or a proxy
Parameter(name, in, type, required, items, proxy) ==
    [k |-> "param", name |-> name, in |-> in, type |-> type, required |-> required,
     items |-> items, schema |-> proxy]
ParamItems(type) == [k |-> "pitems", type |-> type]

\* rest.ParseParameterLocation: the locations the target schema knows
ParameterLocations == {"query", "header", "path", "body", "formData"}
ParseParameterLocation(in) ==
    IF in \in ParameterLocations THEN [loc |-> in, err |-> NoErr]
    ELSE [loc |-> "", err |-> "invalid parameter location " \o in]

\* the name of the named type under the nullable and array wrappers
RECURSIVE getNamedType(_, _)
getNamedType(t, defaultValue) ==
    IF t.k = "named" THEN t.name
    ELSE IF t.k \in {"nullable", "array"} THEN getNamedType(t.of, defaultValue)
    ELSE defaultValue

namedScalar(sc) == Resolved(NewNamedType(sc.name), Nil, sc.reg)
arrayOfScalar(sc) == Resolved(NewArrayType(NewNamedType(sc.name)), Nil, sc.reg)

\* get and convert an OpenAPI data type to a NDC type from parameter
getSchemaTypeFromParameter(param, fieldPaths, reg) ==
    IF param.type = "" THEN Failed(errParameterSchemaEmpty, reg)
    ELSE wrapNullable(~param.required,
        IF isPrimitiveScalar(param.type)
        THEN namedScalar(getScalarFromType(reg, <<param.type>>))
        ELSE IF param.type = "object" THEN Failed("unsupported object parameter", reg)
        ELSE IF param.type = "array"
        THEN \* param.Items == nil && param.Items.Type == "": with no items the
             \* right operand dereferences nil; with items the guard is false
             \* whatever their type
             IF param.items = Nil THEN Failed(Panic, reg)
             ELSE arrayOfScalar(getScalarFromType(reg, <<param.items.type>>))
        ELSE Failed("unsupported schema type " \o param.type, reg))

ContentTypeJSON == "application/json"
ContentTypeMultipartFormData == "multipart/form-data"

RequestBody(contentType, ts) == [k |-> "body", contentType |-> contentType, schema |-> ts]
RequestParameter(name, in, ts) == [name |-> name, in |-> in, schema |-> ts]

\* what convertParameters returns; acc is its state between two parameters
ParamsAcc(arguments, reqParams, requestBody, formData, reg, err) ==
    [arguments |-> arguments, reqParams |-> reqParams, requestBody |-> requestBody,
     formData |-> formData, reg |-> reg, err |-> err]

\* the descriptor convertParameters builds for a primitive-typed parameter
withParameterSchema(param, t) ==
    IF t.err # NoErr THEN t
    ELSE [t EXCEPT !.ts = TypeSchema(getNamedType(t.type, param.type), ~param.required,
                                     NoProps, Nil)]

\* the type and the descriptor of a parameter: from its primitive type, else
\* from its schema, else none
resolveParameter(d, param, fieldPaths, reg) ==
    IF param.type # ""
    THEN withParameterSchema(param, getSchemaTypeFromParameter(param, fieldPaths, reg))
    ELSE IF param.schema # Nil
    THEN getSchemaTypeFromProxy(d, param.schema, ~param.required, fieldPaths, reg, 1)
    ELSE Resolved(Nil, Nil, reg)

\* the parameter resolved to r is placed by its location
placeParameter(param, acc, r, paramLocation) ==
    IF r.err # NoErr THEN [acc EXCEPT !.err = r.err, !.reg = r.reg]
    ELSE IF paramLocation.err # NoErr
    THEN [acc EXCEPT !.err = paramLocation.err, !.reg = r.reg]
    ELSE IF r.type = Nil
    THEN \* schemaType.Encode() on the nil interface
         [acc EXCEPT !.err = Panic, !.reg = r.reg]
    ELSE IF paramLocation.loc = "body"
    THEN [acc EXCEPT !.arguments = ("body" :> [type |-> r.type]) @@ @,
                     !.requestBody = RequestBody("", r.ts),
                     !.reg = r.reg]
    ELSE IF paramLocation.loc = "formData"
    THEN [acc EXCEPT !.arguments = (param.name :> [type |-> r.type]) @@ @,
                     !.formData = IF r.ts # Nil THEN (param.name :> r.ts) @@ @ ELSE @,
                     !.reg = r.reg]
    ELSE [acc EXCEPT !.arguments = (param.name :> [type |-> r.type]) @@ @,
                     !.reqParams = Append(@, RequestParameter(param.name,
                                                  paramLocation.loc, r.ts)),
                     !.reg = r.reg]

\* the body of the loop of convertParameters for one parameter
convertParameter(d, param, fieldPaths, acc) ==
    IF param = Nil THEN acc
    ELSE IF param.name = "" THEN [acc EXCEPT !.err = "parameter name is empty"]
    ELSE placeParameter(param, acc, resolveParameter(d, param, fieldPaths, acc.reg),
                        ParseParameterLocation(param.in))

RECURSIVE convertParameterLoop(_, _, _, _, _)
convertParameterLoop(d, params, i, fieldPaths, acc) ==
    IF acc.err # NoErr \/ i > Len(params) THEN acc
    ELSE convertParameterLoop(d, params, i + 1, fieldPaths,
                              convertParameter(d, params[i], fieldPaths, acc))

\* after the loop: the form data, when there is any, is the request body
finishParameters(acc) ==
    IF acc.err # NoErr THEN ParamsAcc(Nil, <<>>, Nil, NoProps, acc.reg, acc.err)
    ELSE IF DOMAIN acc.formData # {}
    THEN [acc EXCEPT !.requestBody =
              RequestBody(ContentTypeMultipartFormData,
                          TypeSchema("object", FALSE, acc.formData, Nil))]
    ELSE acc

convertParameters(d, params, fieldPaths, reg) ==
    IF Len(params) = 0 THEN ParamsAcc(NoProps, <<>>, Nil, NoProps, reg, NoErr)
    ELSE finishParameters(
             convertParameterLoop(d, params, 1, fieldPaths,
                                  ParamsAcc(NoProps, <<>>, Nil, NoProps, reg, NoErr)))

(***************************************************************************)
(* Responses.                                                              *)
(***************************************************************************)
\* v2.Response and v2.Responses; codes: status code -> response
Response(proxy) == [k |-> "response", schema |-> proxy]
Responses(codes, default) == [k |-> "responses", codes |-> codes, default |-> default]
NoCodes == [c \in {} |-> Nil]

\* responses.Codes.IsZero(), for nil codes too
CodesIsZero(responses) == DOMAIN responses.codes = {}

\* the guard convertResponse opens with
noResponses_codesIgnored(responses) == responses = Nil
noResponses(responses) == responses = Nil \/ CodesIsZero(responses)

\* the codes tried, in order
SuccessCodes == <<"200", "201", "204">>

\* the response convertResponse resolves: the first declared success code
selectResponse(responses) ==
    IF CodesIsZero(responses)
    THEN \* the response is always success
         responses.default
    ELSE IF \A i \in 1..Len(SuccessCodes) : SuccessCodes[i] \notin DOMAIN responses.codes
    THEN Nil
    ELSE responses.codes[SuccessCodes[
             CHOOSE i \in 1..Len(SuccessCodes) :
                 /\ SuccessCodes[i] \in DOMAIN responses.codes
                 /\ \A j \in 1..(i - 1) : SuccessCodes[j] \notin DOMAIN responses.codes]]

\* the nullable hint convertResponse hands to the resolver
responseNullable_hinted == TRUE
responseNullable == FALSE

convertResponse(d, responses, fieldPaths, reg) ==
    IF noResponses(responses) THEN Resolved(Nil, Nil, reg)
    ELSE \* return nullable boolean type if the response content is null
         IF selectResponse(responses) = Nil \/ selectResponse(responses).schema = Nil
         THEN Resolved(NewNullableNamedType("Boolean"), Nil, reg)
         ELSE getSchemaTypeFromProxy(d, selectResponse(responses).schema,
                                     responseNullable, fieldPaths, reg, 1)

(***************************************************************************)
(* Operations and path items.                                              *)
(***************************************************************************)
\* v2.Operation
Operation(id, responses, parameters, consumes) ==
    [k |-> "operation", id |-> id, responses |-> responses,
     parameters |-> parameters, consumes |-> consumes]

\* v2.PathItem
PathItem(get, post, put, patch, delete) ==
    [k |-> "pathItem", get |-> get, post |-> post, put |-> put,
     patch |-> patch, delete |-> delete]

\* the name of an operation that declares no operationId
buildPathMethodName(pathKey, method) == method \o pathKey

operationName(pathKey, method, operation) ==
    IF operation.id = "" THEN buildPathMethodName(pathKey, method) ELSE operation.id

\* the content type of a procedure that declares consumable media types
requestContentType_first(consumes) == consumes[1]
requestContentType(consumes) ==
    IF \E i \in 1..Len(consumes) : consumes[i] = ContentTypeJSON
    THEN ContentTypeJSON
    ELSE consumes[1]

\* rest.Request together with the function's or procedure's info
OperationInfo(url, method, reqParams, reqBody, name, arguments, resultType) ==
    [url |-> url, method |-> method, parameters |-> reqParams, requestBody |-> reqBody,
     name |-> name, arguments |-> arguments, resultType |-> resultType]

\* the request body of a procedure: its content type follows the consumable
\* media types when the operation declares any
procedureBody(operation, requestBody) ==
    IF requestBody # Nil /\ Len(operation.consumes) > 0
    THEN [requestBody EXCEPT !.contentType = requestContentType(operation.consumes)]
    ELSE requestBody

\* convertProcedureOperation once the parameters are converted to ps
procedureBuilt(pathKey, method, operation, resultType, ps) ==
    IF ps.err # NoErr
    THEN [proc |-> Nil, err |-> WrapErr(pathKey, ps.err), reg |-> ps.reg]
    ELSE [proc |-> OperationInfo(pathKey, method, ps.reqParams,
                                 procedureBody(operation, ps.requestBody),
                                 operationName(pathKey, method, operation),
                                 ps.arguments, resultType),
          err |-> NoErr, reg |-> ps.reg]

\* convertProcedureOperation once the response is converted to res
procedureWithResult(d, pathKey, method, operation, res) ==
    IF res.err # NoErr
    THEN [proc |-> Nil, err |-> WrapErr(pathKey, res.err), reg |-> res.reg]
    ELSE IF res.type = Nil THEN [proc |-> Nil, err |-> NoErr, reg |-> res.reg]
    ELSE procedureBuilt(pathKey, method, operation, res.type,
             convertParameters(d, operation.parameters,
                               <<operationName(pathKey, method, operation)>>, res.reg))

convertProcedureOperation(d, pathKey, method, operation, reg) ==
    IF operation = Nil THEN [proc |-> Nil, err |-> NoErr, reg |-> reg]
    ELSE procedureWithResult(d, pathKey, method, operation,
             convertResponse(d, operation.responses,
                             <<operationName(pathKey, method, operation), "Result">>, reg))

\* the GET part of pathToNDCOperations once the parameters are converted to ps
functionBuilt(pathKey, itemGet, resultType, ps) ==
    IF ps.err # NoErr
    THEN [schema |-> ps.reg, err |-> WrapErr(operationName(pathKey, "get", itemGet), ps.err)]
    ELSE [schema |-> [ps.reg EXCEPT !.Functions =
                          Append(@, OperationInfo(pathKey, "get", ps.reqParams,
                                                  ps.requestBody,
                                                  operationName(pathKey, "get", itemGet),
                                                  ps.arguments, resultType))],
          err |-> NoErr]

\* the GET part of pathToNDCOperations once the response is converted to res
functionWithResult(d, pathKey, itemGet, res) ==
    IF res.err # NoErr THEN [schema |-> res.reg, err |-> WrapErr(pathKey, res.err)]
    ELSE IF res.type = Nil THEN [schema |-> res.reg, err |-> NoErr]
    ELSE functionBuilt(pathKey, itemGet, res.type,
             convertParameters(d, itemGet.parameters,
                               <<operationName(pathKey, "get", itemGet)>>, res.reg))

\* the GET part of pathToNDCOperations
convertFunctionOperation(d, pathKey, itemGet, sch) ==
    IF itemGet = Nil THEN [schema |-> sch, err |-> NoErr]
    ELSE functionWithResult(d, pathKey, itemGet,
             convertResponse(d, itemGet.responses,
                             <<operationName(pathKey, "get", itemGet), "Result">>, sch))

\* the verbs pathToNDCOperations maps to procedures, in its order
ProcedureMethods == <<"post", "put", "patch", "delete">>

OperationOf(pathValue, method) ==
    CASE method = "get" -> pathValue.get
      [] method = "post" -> pathValue.post
      [] method = "put" -> pathValue.put
      [] method = "patch" -> pathValue.patch
      [] method = "delete" -> pathValue.delete

\* a converted procedure is appended, an error ends the path item
addProcedure(p) ==
    IF p.err # NoErr THEN [schema |-> p.reg, err |-> p.err]
    ELSE [schema |-> IF p.proc # Nil THEN [p.reg EXCEPT !.Procedures = Append(@, p.proc)]
                     ELSE p.reg,
          err |-> NoErr]

RECURSIVE convertProcedures(_, _, _, _, _)
convertProcedures(d, pathKey, pathValue, i, acc) ==
    IF acc.err # NoErr \/ i > Len(ProcedureMethods) THEN acc
    ELSE convertProcedures(d, pathKey, pathValue, i + 1,
             addProcedure(convertProcedureOperation(d, pathKey, ProcedureMethods[i],
                              OperationOf(pathValue, ProcedureMethods[i]), acc.schema)))

pathToNDCOperations(d, pathKey, pathValue, sch) ==
    convertProcedures(d, pathKey, pathValue, 1,
                      convertFunctionOperation(d, pathKey, pathValue.get, sch))

(***************************************************************************)
(* Definitions and security definitions.                                   *)
(***************************************************************************)
registered(r) == [schema |-> r.reg, err |-> r.err]

convertComponentSchemas(d, key, sch) ==
    IF d[key] = Nil \/ ~(\E i \in 1..Len(d[key].type) : d[key].type[i] = "object")
    THEN [schema |-> sch, err |-> NoErr]
    ELSE registered(getSchemaType(d, d[key], <<key>>, sch, 1))

\* v2.SecurityScheme
SecurityScheme(type, in, flow) == [k |-> "security", type |-> type, in |-> in, flow |-> flow]

EnvPrefix == "MYAPI"

\* utils.StringSliceToConstantCase over the keys the documents below use
ConstantOf ==
    [MYAPI |-> "MYAPI", TOKEN |-> "TOKEN", apiKeyAuth |-> "APIKEYAUTH",
     basicAuth |-> "BASICAUTH", oauth |-> "OAUTH", legacy |-> "LEGACY"]
RECURSIVE StringSliceToConstantCase(_)
StringSliceToConstantCase(ss) ==
    IF ss = <<>> THEN ""
    ELSE IF Len(ss) = 1 THEN ConstantOf[ss[1]]
    ELSE ConstantOf[ss[1]] \o "_" \o StringSliceToConstantCase(Tail(ss))

\* rest.ParseAPIKeyLocation
ParseAPIKeyLocation(in) ==
    IF in \in {"header", "query", "cookie"} THEN [loc |-> in, err |-> NoErr]
    ELSE [loc |-> "", err |-> "invalid api key location " \o in]

OAuthFlowOf(flow) ==
    CASE flow = "accessCode" -> "authorizationCode"
      [] flow = "implicit" -> "implicit"
      [] flow = "password" -> "password"
      [] flow = "application" -> "clientCredentials"
      [] OTHER -> ""

\* oc.schema.Settings.SecuritySchemes[key] = result
schemeStored(key, result, sch) ==
    [schema |-> [sch EXCEPT !.SecuritySchemes = (key :> result) @@ @], err |-> NoErr]

convertSecuritySchemes(key, security, sch) ==
    IF security = Nil THEN [schema |-> sch, err |-> NoErr]
    ELSE CASE security.type = "apiKey" ->
               IF ParseAPIKeyLocation(security.in).err # NoErr
               THEN [schema |-> sch, err |-> ParseAPIKeyLocation(security.in).err]
               ELSE schemeStored(key,
                        [type |-> "apiKey", in |-> ParseAPIKeyLocation(security.in).loc,
                         flow |-> "",
                         value |-> StringSliceToConstantCase(<<EnvPrefix, key>>)], sch)
           [] security.type = "basic" ->
               schemeStored(key,
                   [type |-> "http", in |-> "", flow |-> "",
                    value |-> StringSliceToConstantCase(<<EnvPrefix, key, "TOKEN">>)], sch)
           [] security.type = "oauth2" ->
               schemeStored(key,
                   [type |-> "oauth2", in |-> "", flow |-> OAuthFlowOf(security.flow),
                    value |-> ""], sch)
           [] OTHER ->
               [schema |-> sch, err |-> "invalid security scheme: " \o security.type]

(***************************************************************************)
(* The documents the model runs over.                                      *)
(***************************************************************************)
Str == Schema(<<"string">>, FALSE, <<>>, {}, Nil, FALSE, "")
StrN == Schema(<<"string">>, TRUE, <<>>, {}, Nil, FALSE, "")
Json == Schema(<<"string", "null">>, TRUE, <<>>, {}, Nil, FALSE, "")
Untyped == Schema(<<>>, FALSE, <<>>, {}, Nil, FALSE, "")
File == Schema(<<"file">>, FALSE, <<>>, {}, Nil, FALSE, "")
ObjEmpty == Schema(<<"object">>, FALSE, <<>>, {}, Nil, FALSE, "")
\* an object with the one property owner
ObjOf(proxy, required, nullable) ==
    Schema(<<"object">>, nullable, << <<"owner", proxy>> >>,
           IF required THEN {"owner"} ELSE {}, Nil, FALSE, "")
ObjTitled == Schema(<<"object">>, FALSE, << <<"owner", Inline(Str)>> >>, {}, Nil, FALSE, "Owner")
ArrOf(items, nullable) == Schema(<<"array">>, nullable, <<>>, {}, items, FALSE, "")

\* the definitions of a document, in the order of its ordered map
DefOrder == <<"pet", "tag">>
PetSchemas ==
    { Str, ObjEmpty,
      ObjOf(RefTo("tag"), FALSE, FALSE),
      ObjOf(Inline(StrN), FALSE, FALSE),
      ArrOf(ItemsOf(Inline(ObjOf(RefTo("pet"), FALSE, FALSE))), FALSE) }
TagSchemas ==
    { Str,
      ObjOf(RefTo("pet"), TRUE, FALSE),
      ArrOf(ItemsOf(RefTo("pet")), FALSE),
      ObjOf(Inline(ArrOf(Nil, FALSE)), FALSE, FALSE) }
Definitions == {[pet |-> p, tag |-> t] : p \in PetSchemas, t \in TagSchemas}

\* the schemas a response or a body parameter declares
ResponseSchemas ==
    { RefTo("pet"), RefTo("tag"), RefTo("gone"),
      Inline(Str), Inline(StrN), Inline(Json), Inline(Untyped), Inline(File),
      Inline(ObjTitled), Inline(ObjOf(Inline(StrN), FALSE, TRUE)),
      Inline(ArrOf(ItemsOf(RefTo("tag")), FALSE)),
      Inline(ArrOf(ItemsOf(Inline(Str)), TRUE)),
      Inline(ArrOf(Nil, FALSE)), Inline(ArrOf(ItemsOf(Nil), FALSE)),
      Inline(ArrOf(ItemsOf(Inline(Nil)), FALSE)) }

\* the schema each status code declares where several codes are declared
SchemaAt ==
    [c \in {"200", "201", "204", "404"} |->
        CASE c = "200" -> Inline(Str)
          [] c = "201" -> Inline(Json)
          [] c = "204" -> Inline(ArrOf(ItemsOf(Inline(Str)), FALSE))
          [] c = "404" -> Inline(StrN)]
DefaultResponses == {Nil, Response(Inline(ObjEmpty))}

AllResponses ==
    {Nil}
    \cup {Responses(NoCodes, dflt) : dflt \in DefaultResponses}
    \cup {Responses("200" :> Response(p), Nil) : p \in ResponseSchemas \cup {Nil}}
    \cup {Responses([c \in cs |-> Response(SchemaAt[c])], dflt) :
             cs \in SUBSET {"200", "201", "204", "404"} \ {{}}, dflt \in DefaultResponses}

Ok200 == Responses("200" :> Response(Inline(Str)), Nil)

\* the parameters of an operation
AllParameters ==
    { Nil,
      Parameter("", "query", "string", FALSE, Nil, Nil),
      Parameter("id", "path", "string", TRUE, Nil, Nil),
      Parameter("id", "cookie", "string", FALSE, Nil, Nil),
      Parameter("x", "header", "", FALSE, Nil, Nil),
      Parameter("ids", "query", "array", TRUE, ParamItems("string"), Nil),
      Parameter("ids", "query", "array", TRUE, ParamItems(""), Nil),
      Parameter("ids", "query", "array", FALSE, Nil, Nil),
      Parameter("file", "formData", "string", FALSE, Nil, Nil),
      Parameter("tag", "formData", "string", TRUE, Nil, Nil),
      Parameter("tag", "formData", "", TRUE, Nil, Inline(StrN)),
      Parameter("payload", "body", "", TRUE, Nil, RefTo("pet")) }

RECURSIVE SeqsUpTo(_, _)
SeqsUpTo(S, n) ==
    IF n = 0 THEN {<<>>}
    ELSE LET shorter == SeqsUpTo(S, n - 1)
         IN shorter \cup {Append(q, x) : q \in {r \in shorter : Len(r) = n - 1}, x \in S}

ParameterLists == SeqsUpTo(AllParameters, MaxParams)

AllConsumes ==
    { <<>>, <<"application/x-www-form-urlencoded">>,
      <<ContentTypeMultipartFormData, ContentTypeJSON>> }

Methods == {"get"} \cup {ProcedureMethods[i] : i \in 1..Len(ProcedureMethods)}

\* a path item that declares the one operation op, under the verb method
OnlyVerb(method, op) ==
    PathItem(IF method = "get" THEN op ELSE Nil, IF method = "post" THEN op ELSE Nil,
             IF method = "put" THEN op ELSE Nil, IF method = "patch" THEN op ELSE Nil,
             IF method = "delete" THEN op ELSE Nil)

\* the operations called one at a time: under every verb every response with
\* no parameters, and as a function and as a procedure every parameter list
\* and consumable media types with a plain response
AllOperations ==
    {<<m, Operation("", r, <<>>, <<>>)>> : m \in Methods, r \in AllResponses}
    \cup {<<m, Operation("", Ok200, ps, c)>> :
             m \in {"get", "post"}, ps \in ParameterLists, c \in AllConsumes}

\* the operations of the path items of a whole document
OpOk == Operation("", Ok200, <<>>, <<>>)
OpNoCodes == Operation("", Responses(NoCodes, Nil), <<>>, <<>>)
OpNoContent == Operation("", Responses("200" :> Response(Nil), Nil), <<>>, <<>>)
OpRefPet == Operation("listPets", Responses("200" :> Response(RefTo("pet")), Nil), <<>>, <<>>)
OpArrTag ==
    Operation("", Responses("200" :> Response(Inline(ArrOf(ItemsOf(RefTo("tag")), FALSE))), Nil),
              <<>>, <<>>)
OpBadArr == Operation("", Responses("200" :> Response(Inline(ArrOf(Nil, FALSE))), Nil), <<>>, <<>>)
OpUntypedParam ==
    Operation("", Ok200, <<Parameter("x", "header", "", FALSE, Nil, Nil)>>, <<>>)

PathItems ==
    {PathItem(g, p, Nil, Nil, Nil) :
        g \in {Nil, OpNoCodes, OpNoContent, OpRefPet, OpArrTag},
        p \in {Nil, OpOk, OpUntypedParam}}
    \cup {PathItem(OpNoCodes, OpBadArr, OpOk, Nil, Nil),
          PathItem(Nil, OpNoCodes, OpOk, OpOk, OpOk)}

PathKey(i) == "/p" \o ToString(i)

\* the security definitions of a document, and their keys in map order
SecurityKeys == <<"apiKeyAuth", "basicAuth", "oauth", "legacy">>
SecuritySchemes ==
    { Nil,
      SecurityScheme("apiKey", "header", ""),
      SecurityScheme("apiKey", "body", ""),
      SecurityScheme("basic", "", ""),
      SecurityScheme("oauth2", "", "accessCode"),
      SecurityScheme("digest", "", "") }

\* the errors BuildV2Model reports without failing
BuildErrors == {<<>>, <<"build error">>}

(***************************************************************************)
(* The document walker: OpenAPIv2ToNDCSchema.                              *)
(***************************************************************************)
\* rest.NewNDCRestSchema(): the empty envelope
NewNDCRestSchema ==
    [ObjectTypes |-> NoProps, ScalarTypes |-> {}, Functions |-> <<>>,
     Procedures |-> <<>>, SecuritySchemes |-> NoProps]

NotReturned == [kind |-> "none", envelope |-> Nil, errs |-> <<>>]
\* return nil, errs
ReturnErrors(es) == [kind |-> "errors", envelope |-> Nil, errs |-> es]
\* return converter.schema, nil
ReturnEnvelope(sch) == [kind |-> "envelope", envelope |-> sch, errs |-> <<>>]
\* the goroutine dies: nothing is returned
Crashed(e) == [kind |-> "crash", envelope |-> Nil, errs |-> <<e>>]

\* return nil, append(errs, err), unless err is a crash
Abort(es, e) == IF IsCrash(e) THEN Crashed(e) ELSE ReturnErrors(Append(es, e))

NoItem == [key |-> "", value |-> Nil]
NoCall == [fn |-> ""]

Init ==
    /\ defs \in Definitions
    /\ pc = "start"
    /\ errs = <<>>
    /\ idx = 0
    /\ item = NoItem
    /\ schema = NewNDCRestSchema
    /\ ret = NotReturned
    /\ call = NoCall

\* the options, the document and the model are checked, the converter is made
Start ==
    /\ pc = "start"
    /\ \E failure \in {"", "options", "document", "model", "paths"}, es \in BuildErrors :
         /\ errs' = IF failure \in {"options", "document"} THEN <<>> ELSE es
         /\ IF failure \in {"options", "document"}
            THEN ret' = ReturnErrors(<<"invalid " \o failure>>) /\ pc' = "done"
            ELSE IF failure = "model"
            THEN \* docModel == nil && len(errs) > 0
                 ret' = ReturnErrors(<<"build error">>) /\ pc' = "done"
            ELSE IF failure = "paths"
            THEN /\ ret' = ReturnErrors(Append(es, "there is no API to be converted"))
                 /\ pc' = "done"
            ELSE ret' = ret /\ pc' = "paths"
    /\ UNCHANGED <<defs, idx, item, schema, call>>

\* the loop over the path items after the path item pathValue ended with r
PathVisited(pathKey, pathValue, last, r) ==
    /\ item' = [key |-> pathKey, value |-> pathValue]
    /\ schema' = r.schema
    /\ IF r.err # NoErr
       THEN ret' = Abort(errs, r.err) /\ pc' = "done" /\ idx' = idx
       ELSE /\ ret' = ret
            /\ IF last \/ idx + 1 >= MaxPaths
               THEN pc' = "definitions" /\ idx' = 0
               ELSE pc' = "paths" /\ idx' = idx + 1

\* one turn of the loop over the path items
VisitPath ==
    /\ pc = "paths"
    /\ \E pathValue \in PathItems, last \in BOOLEAN :
         PathVisited(PathKey(idx + 1), pathValue, last,
                     pathToNDCOperations(defs, PathKey(idx + 1), pathValue, schema))
    /\ UNCHANGED <<defs, errs, call>>

\* the loop over the definitions after a definition ended with r
DefinitionVisited(secured, r) ==
    /\ schema' = r.schema
    /\ IF r.err # NoErr
       THEN ret' = Abort(errs, r.err) /\ pc' = "done" /\ idx' = idx
       ELSE /\ ret' = ret
            /\ IF idx + 1 < Len(DefOrder)
               THEN pc' = "definitions" /\ idx' = idx + 1
               ELSE pc' = (IF secured THEN "security" ELSE "return") /\ idx' = 0

\* one turn of the loop over the definitions; after the last one the security
\* definitions follow when the document declares any
VisitDefinition ==
    /\ pc = "definitions"
    /\ \E secured \in BOOLEAN :
         DefinitionVisited(secured, convertComponentSchemas(defs, DefOrder[idx + 1], schema))
    /\ UNCHANGED <<defs, errs, item, call>>

\* the loop over the security definitions after one ended with r
SecuritySchemeVisited(last, r) ==
    /\ schema' = r.schema
    /\ IF r.err # NoErr
       THEN ret' = Abort(errs, r.err) /\ pc' = "done" /\ idx' = idx
       ELSE /\ ret' = ret
            /\ IF last \/ idx + 1 >= MaxSchemes
               THEN pc' = "return" /\ idx' = 0
               ELSE pc' = "security" /\ idx' = idx + 1

\* one turn of the loop over the security definitions
VisitSecurityScheme ==
    /\ pc = "security"
    /\ \E security \in SecuritySchemes, last \in BOOLEAN :
         SecuritySchemeVisited(last,
             convertSecuritySchemes(SecurityKeys[idx + 1], security, schema))
    /\ UNCHANGED <<defs, errs, item, call>>

\* return converter.schema, nil
Return ==
    /\ pc = "return"
    /\ ret' = ReturnEnvelope(schema)
    /\ pc' = "done"
    /\ UNCHANGED <<defs, errs, idx, item, schema, call>>

Next == Start \/ VisitPath \/ VisitDefinition \/ VisitSecurityScheme \/ Return

Spec == Init /\ [][Next]_vars

(***************************************************************************)
(* The converter's functions called one at a time, on a fresh converter.   *)
(***************************************************************************)
InitOp ==
    /\ defs \in Definitions
    /\ pc = "call"
    /\ errs = <<>>
    /\ idx = 0
    /\ item = NoItem
    /\ schema = NewNDCRestSchema
    /\ ret = NotReturned
    /\ call = NoCall

ResponseConverted(responses, r) ==
    /\ call' = [fn |-> "convertResponse", responses |-> responses]
    /\ ret' = [kind |-> "result", type |-> r.type, err |-> r.err]
    /\ schema' = r.reg

CallConvertResponse ==
    /\ pc = "call"
    /\ \E responses \in AllResponses :
         ResponseConverted(responses,
                           convertResponse(defs, responses, <<"op", "Result">>, schema))
    /\ pc' = "returned"
    /\ UNCHANGED <<defs, errs, idx, item>>

ParametersConverted(params, r) ==
    /\ call' = [fn |-> "convertParameters", params |-> params]
    /\ ret' = [kind |-> "result", arguments |-> r.arguments, reqParams |-> r.reqParams,
               requestBody |-> r.requestBody, err |-> r.err]
    /\ schema' = r.reg

CallConvertParameters ==
    /\ pc = "call"
    /\ \E params \in ParameterLists :
         ParametersConverted(params, convertParameters(defs, params, <<"op">>, schema))
    /\ pc' = "returned"
    /\ UNCHANGED <<defs, errs, idx, item>>

OperationConverted(method, op, r) ==
    /\ call' = [fn |-> "pathToNDCOperations", method |-> method, operation |-> op]
    /\ item' = [key |-> PathKey(1), value |-> OnlyVerb(method, op)]
    /\ ret' = [kind |-> "result", err |-> r.err]
    /\ schema' = r.schema

CallPathToNDCOperations ==
    /\ pc = "call"
    /\ \E mop \in AllOperations :
         OperationConverted(mop[1], mop[2],
             pathToNDCOperations(defs, PathKey(1), OnlyVerb(mop[1], mop[2]), schema))
    /\ pc' = "returned"
    /\ UNCHANGED <<defs, errs, idx>>

NextOp == CallConvertResponse \/ CallConvertParameters \/ CallPathToNDCOperations

SpecOp == InitOp /\ [][NextOp]_vars

(***************************************************************************)
(* What the properties below read.                                         *)
(***************************************************************************)
\* a Nullable directly around a Nullable, at any depth of the expression
RECURSIVE DoubleNullable(_)
DoubleNullable(t) ==
    /\ t.k \in {"nullable", "array"}
    /\ \/ t.k = "nullable" /\ t.of.k = "nullable"
       \/ DoubleNullable(t.of)

\* the name a type expression mentions
RECURSIVE NameOf(_)
NameOf(t) == IF t.k = "named" THEN t.name ELSE NameOf(t.of)

OperationTypes(ops) ==
    UNION {{ops[i].resultType} \cup {ops[i].arguments[a].type : a \in DOMAIN ops[i].arguments} :
              i \in 1..Len(ops)}

\* every type expression an envelope stores
EnvelopeTypes(sch) ==
    UNION {{sch.ObjectTypes[n][f] : f \in DOMAIN sch.ObjectTypes[n]} : n \in DOMAIN sch.ObjectTypes}
    \cup OperationTypes(sch.Functions)
    \cup OperationTypes(sch.Procedures)

Returned == pc = "done"
EnvelopeReturned == pc = "done" /\ ret.kind = "envelope"

(***************************************************************************)
(* C1.  OpenAPIv2ToNDCSchema returns exactly one of a complete envelope    *)
(* with no error list, or no envelope with a non-empty error list; a       *)
(* document with no path items, and the first error of a path item, of a   *)
(* definition or of a security definition, end in the latter.              *)
(***************************************************************************)
C1_EnvelopeOrErrors ==
    Returned =>
        \/ ret.kind = "envelope" /\ ret.envelope # Nil /\ ret.errs = <<>>
        \/ ret.kind = "errors" /\ ret.envelope = Nil /\ Len(ret.errs) > 0

(***************************************************************************)
(* C2.  No type expression stored in an argument, an object field or an    *)
(* operation result of a returned envelope has a Nullable around a         *)
(* Nullable.                                                               *)
(***************************************************************************)
C2_NullableOnce ==
    EnvelopeReturned => \A t \in EnvelopeTypes(ret.envelope) : ~DoubleNullable(t)

(***************************************************************************)
(* C3.  The conversion of a document with a reference cycle ends: no       *)
(* reference is descended again without bound.  Two object definitions     *)
(* that reference each other give two object types, each naming the other. *)
(***************************************************************************)
ObjectCycle ==
    /\ defs.pet.type = <<"object">> /\ defs.pet.props = << <<"owner", RefTo("tag")>> >>
    /\ defs.tag.type = <<"object">> /\ defs.tag.props = << <<"owner", RefTo("pet")>> >>

C3_CyclesTerminate ==
    /\ Returned => ~(ret.kind = "crash" /\ ret.errs = <<StackOverflow>>)
    /\ EnvelopeReturned /\ ObjectCycle =>
          /\ {"Pet", "Tag"} \subseteq DOMAIN ret.envelope.ObjectTypes
          /\ NameOf(ret.envelope.ObjectTypes["Pet"]["owner"]) = "Tag"
          /\ NameOf(ret.envelope.ObjectTypes["Tag"]["owner"]) = "Pet"

(***************************************************************************)
(* C9.  Every type name a returned envelope mentions is a key of its       *)
(* object registry or of its scalar registry.                              *)
(***************************************************************************)
C9_NamesRegistered ==
    EnvelopeReturned =>
        \A t \in EnvelopeTypes(ret.envelope) :
            NameOf(t) \in DOMAIN ret.envelope.ObjectTypes \cup ret.envelope.ScalarTypes

(***************************************************************************)
(* C4.  convertResponse resolves the schema of the response declared for   *)
(* 200, else 201, else 204, else of the declared default response.         *)
(***************************************************************************)
\* the response the statement selects
PreferredResponse(responses) ==
    IF responses = Nil THEN Nil
    ELSE IF "200" \in DOMAIN responses.codes THEN responses.codes["200"]
    ELSE IF "201" \in DOMAIN responses.codes THEN responses.codes["201"]
    ELSE IF "204" \in DOMAIN responses.codes THEN responses.codes["204"]
    ELSE responses.default

ResponseCalled == pc = "returned" /\ call.fn = "convertResponse"

\* the type and the error the resolver gives for a response schema
ResolvedAlone(proxy) ==
    getSchemaTypeFromProxy(defs, proxy, FALSE, <<"op", "Result">>, NewNDCRestSchema, 1)

C4_PreferredResponseResolved ==
    ResponseCalled /\ PreferredResponse(call.responses) # Nil
                   /\ PreferredResponse(call.responses).schema # Nil =>
        /\ ret.type = ResolvedAlone(PreferredResponse(call.responses).schema).type
        /\ ret.err = ResolvedAlone(PreferredResponse(call.responses).schema).err

(***************************************************************************)
(* C5.  As stated: when the selected response declares a schema, the       *)
(* result type of convertResponse is not a Nullable, whatever the schema's *)
(* own nullable flag.                                                      *)
(***************************************************************************)
\* the selected response declares a schema and convertResponse resolved it
SchemaResolved ==
    /\ ResponseCalled
    /\ ~noResponses(call.responses)
    /\ selectResponse(call.responses) # Nil
    /\ selectResponse(call.responses).schema # Nil
    /\ ret.err = NoErr

SelectedSchema == ProxySchema(defs, selectResponse(call.responses).schema)

C5_ResultNeverNullable == SchemaResolved => ret.type.k # "nullable"

(***************************************************************************)
(* C5, amended.  When the selected response declares a schema whose own    *)
(* nullable flag is not set, the result type of convertResponse is not a   *)
(* Nullable: the caller's hint never wraps it.                             *)
(***************************************************************************)
C5_ResultNullableOnlyByOwnFlag ==
    SchemaResolved /\ ~SelectedSchema.nullable => ret.type.k # "nullable"

C5_Witness ==
    SchemaResolved /\ ~SelectedSchema.nullable /\ ret.type.k = "array"

(***************************************************************************)
(* C8.  An array with no usable item schema ends in the missing-array-item *)
(* error, returned, and no array type: for an array schema and for an      *)
(* array parameter whose items are absent or declare no type.              *)
(***************************************************************************)
ParametersCalled == pc = "returned" /\ call.fn = "convertParameters"

ArrayParameterWithoutItems(param) ==
    /\ param # Nil
    /\ param.name # ""
    /\ param.type = "array"
    /\ (param.items = Nil \/ param.items.type = "")

ArraySchemaWithoutItems(proxy) ==
    /\ proxy # Nil
    /\ proxy.ref = <<>>
    /\ proxy.inline # Nil
    /\ proxy.inline.type = <<"array">>
    /\ \/ proxy.inline.items = Nil
       \/ proxy.inline.items.A = Nil
       \/ ProxySchema(defs, proxy.inline.items.A) = Nil

C8_MissingArrayItem ==
    /\ ParametersCalled /\ Len(call.params) > 0
                        /\ ArrayParameterWithoutItems(call.params[1]) =>
          ret.err = errArrayItemEmpty /\ ret.arguments = Nil
    /\ ResponseCalled /\ ~noResponses(call.responses)
                      /\ selectResponse(call.responses) # Nil
                      /\ ArraySchemaWithoutItems(selectResponse(call.responses).schema) =>
          ret.err # NoErr /\ ~IsCrash(ret.err) /\ ret.type = Nil

(***************************************************************************)
(* C10.  convertParameters returns an error, or arguments that all have a  *)
(* resolved type: a named parameter with neither a type nor a schema ends  *)
(* in a returned error, decided before its location is read.               *)
(***************************************************************************)
UntypedParameter(param) ==
    param # Nil /\ param.name # "" /\ param.type = "" /\ param.schema = Nil

C10_ArgumentsResolved ==
    ParametersCalled =>
        /\ \/ ret.err # NoErr /\ ~IsCrash(ret.err)
           \/ ret.err = NoErr /\ \A a \in DOMAIN ret.arguments : ret.arguments[a].type # Nil
        /\ Len(call.params) > 0 /\ UntypedParameter(call.params[1]) =>
              ret.err = errParameterSchemaEmpty

(***************************************************************************)
(* C6.  As stated: a GET operation with no declared response content gives *)
(* no entry in Functions.                                                  *)
(***************************************************************************)
\* the path item visited last was converted, and nothing failed since
PathConverted == item.value # Nil /\ ret.kind \in {"none", "envelope"}

HasEntry(ops, url, method) ==
    \E i \in 1..Len(ops) : ops[i].url = url /\ ops[i].method = method

\* no response is declared, or the response selected declares no schema
NoResponseContent(op) ==
    \/ op.responses = Nil
    \/ DOMAIN op.responses.codes = {}
    \/ selectResponse(op.responses) = Nil
    \/ selectResponse(op.responses).schema = Nil

C6_GetWithoutContentDropped ==
    PathConverted /\ item.value.get # Nil /\ NoResponseContent(item.value.get) =>
        ~HasEntry(schema.Functions, item.key, "get")

(***************************************************************************)
(* C6, amended.  Each of GET, POST, PUT, PATCH, DELETE of a path item is   *)
(* mapped on its own: when the path item converts without an error, a verb *)
(* has an entry (GET in Functions, the others in Procedures) exactly when   *)
(* its operation declares at least one response code, and a path item      *)
(* none of whose operations declares a response code raises no error and   *)
(* adds no entry.  So a GET with no declared response codes is dropped     *)
(* while the POST beside it, with a resolvable response, is a procedure.   *)
(***************************************************************************)
DeclaresCodes(op) ==
    op # Nil /\ op.responses # Nil /\ DOMAIN op.responses.codes # {}

AllVerbs == {"get", "post", "put", "patch", "delete"}

C6_VerbsMappedIndependently ==
    [][pc = "paths" =>
          /\ (\A m \in AllVerbs : ~DeclaresCodes(OperationOf(item'.value, m))) =>
                /\ pc' # "done"
                /\ schema'.Functions = schema.Functions
                /\ schema'.Procedures = schema.Procedures
          /\ pc' # "done" =>
                \A m \in AllVerbs :
                    HasEntry(IF m = "get" THEN schema'.Functions ELSE schema'.Procedures,
                             item'.key, m)
                    <=> DeclaresCodes(OperationOf(item'.value, m))
    ]_vars

C6_Witness ==
    /\ PathConverted
    /\ item.value.get # Nil /\ ~DeclaresCodes(item.value.get)
    /\ DeclaresCodes(item.value.post)
    /\ ~HasEntry(schema.Functions, item.key, "get")
    /\ HasEntry(schema.Procedures, item.key, "post")

(***************************************************************************)
(* C7.  As stated: an emitted operation with a form-data parameter has a   *)
(* multipart/form-data request body whose object descriptor holds one      *)
(* property per form-data parameter, nullable exactly when the parameter   *)
(* is not required, whatever else the operation declares.                  *)
(***************************************************************************)
\* pathToNDCOperations converted the one operation of the call and emitted it
OperationEmitted ==
    /\ pc = "returned"
    /\ call.fn = "pathToNDCOperations"
    /\ ret.err = NoErr
    /\ Len(schema.Functions \o schema.Procedures) = 1

EmittedBody == (schema.Functions \o schema.Procedures)[1].requestBody

FormDataParameters(params) ==
    {i \in 1..Len(params) : params[i] # Nil /\ params[i].in = "formData"}

C7_FormDataIsMultipart ==
    OperationEmitted /\ FormDataParameters(call.operation.parameters) # {} =>
        /\ EmittedBody # Nil
        /\ EmittedBody.contentType = ContentTypeMultipartFormData
        /\ EmittedBody.schema.type = "object"
        /\ DOMAIN EmittedBody.schema.props =
              {call.operation.parameters[i].name :
                  i \in FormDataParameters(call.operation.parameters)}
        /\ \A i \in FormDataParameters(call.operation.parameters) :
              EmittedBody.schema.props[call.operation.parameters[i].name].nullable
                  = ~call.operation.parameters[i].required

(***************************************************************************)
(* C7, amended.  An emitted operation with a form-data parameter has a     *)
(* request body whose object descriptor holds one property per form-data   *)
(* parameter name; the property of a name whose last form-data parameter   *)
(* declares a type of its own is nullable exactly when that parameter is   *)
(* not required; body parameters change none of this.  The content type is *)
(* multipart/form-data for a function and for a procedure that declares no *)
(* consumable media types; a procedure that declares some has              *)
(* application/json when it is among them, else the first of them.         *)
(***************************************************************************)
\* i is the last form-data parameter of its name
LastOfName(params, i) ==
    \A j \in FormDataParameters(params) : params[j].name = params[i].name => j <= i

ExpectedContentType(method, consumes) ==
    IF method = "get" \/ consumes = <<>> THEN ContentTypeMultipartFormData
    ELSE IF \E i \in 1..Len(consumes) : consumes[i] = ContentTypeJSON THEN ContentTypeJSON
    ELSE consumes[1]

C7_FormDataBody ==
    OperationEmitted /\ FormDataParameters(call.operation.parameters) # {} =>
        /\ EmittedBody # Nil
        /\ EmittedBody.contentType =
              ExpectedContentType(call.method, call.operation.consumes)
        /\ EmittedBody.schema.type = "object"
        /\ DOMAIN EmittedBody.schema.props =
              {call.operation.parameters[i].name :
                  i \in FormDataParameters(call.operation.parameters)}
        /\ \A i \in FormDataParameters(call.operation.parameters) :
              LastOfName(call.operation.parameters, i)
                  /\ call.operation.parameters[i].type # "" =>
              EmittedBody.schema.props[call.operation.parameters[i].name].nullable
                  = ~call.operation.parameters[i].required

C7_Witness ==
    /\ OperationEmitted
    /\ call.method = "post"
    /\ call.operation.consumes = <<ContentTypeMultipartFormData, ContentTypeJSON>>
    /\ Cardinality(FormDataParameters(call.operation.parameters)) = 2
    /\ EmittedBody.contentType = ContentTypeJSON
    /\ Cardinality(DOMAIN EmittedBody.schema.props) = 2

====
